---- MODULE Spec2Model ----
(***************************************************************************)
(* A model of src/bot.py: the spam filter of a Telegram group bot.         *)
(*                                                                         *)
(* State: the per-sender message windows (user_messages), the night-mode   *)
(* flag (NIGHT_MODE_ENABLED), the system clock read by time.time(), the    *)
(* handle_message coroutines in flight, and the delete_message_after tasks *)
(* created with asyncio.create_task.                                       *)
(*                                                                         *)
(* Coroutines run on one asyncio event loop: a coroutine keeps the loop    *)
(* from the moment it is resumed until its next await, so another          *)
(* coroutine can only run while this one waits for a network call.         *)
(*                                                                         *)
(* `last` is the record of the latest handle_message call that returned,   *)
(* kept until the next update arrives.                                     *)
(*                                                                         *)
(* `probe` is one call of a helper function on its own (is_similar,        *)
(* contains_spam_keywords, is_night_time) with its arguments and the value *)
(* it returned, and `retry` one call of the wrapper that                   *)
(* retry_on_network_error builds, with its locals.  The runs of the bot    *)
(* leave both alone.                                                       *)
(*                                                                         *)
(* `wake` lists, for the delete_message_after tasks that are pending, the  *)
(* time at which the sleep of each ends.  Only the runs that follow the    *)
(* clock of the tasks keep it; in the others a sleep ends at any time.     *)
(*                                                                         *)
(* A text is a sequence of one-character strings.                          *)
(***************************************************************************)
EXTENDS Integers, Sequences, FiniteSets, TLC

VARIABLES user_messages, NIGHT_MODE_ENABLED, now, handlers, warning_tasks, last,
          probe, retry, wake

vars == <<user_messages, NIGHT_MODE_ENABLED, now, handlers, warning_tasks, last,
          probe, retry, wake>>

----------------------------------------------------------------------------
(* Program constants (src/bot.py:33-36).                                   *)

\* SIMILARITY_THRESHOLD = 0.65, in hundredths
SIMILARITY_THRESHOLD == 65
MESSAGE_LIMIT == 5
TIME_WINDOW == 30

\* SPAM_KEYWORDS (lines 39-49), abbreviated to two entries: "ad" stands for
\* the entries written in lower case only, "jV" for "加V" (line 46), the
\* entry that holds an upper-case letter.
SPAM_KEYWORDS == << <<"a", "d">>, <<"j", "V">> >>

----------------------------------------------------------------------------
(* Bounds of the model.  The runs are of two kinds: those that handle the  *)
(* updates one at a time (one coroutine slot: the default of the           *)
(* ApplicationBuilder of lines 171-177), with one sender and long windows, *)
(* and those that handle them concurrently (two slots), with two senders   *)
(* and short windows.  Further runs handle the updates one at a time with  *)
(* two senders and one text, or with the clock of the tasks.               *)

Concurrent == Cardinality(DOMAIN handlers) > 1

\* senders (update.effective_user.id)
Senders == IF Concurrent THEN {1, 2} ELSE {1}

\* texts a message can carry (message.text or message.caption; <<>> when the
\* message has neither): "Ad", which holds a keyword once case-folded, and
\* "hey" and "yo", which hold none and are not similar (ratio 2/5)
Texts ==
    { <<>>, <<"A", "d">>, <<"h", "e", "y">> }
        \cup (IF Concurrent THEN {} ELSE { <<"y", "o">> })

\* the action parameter of handle_message (setup_application passes "delete")
Actions == {"delete", "mute", "kick"}

\* the clock readings the model tells apart (seconds since the first one)
Instants == {0, 1, TIME_WINDOW + 1}

\* local hours in Asia/Shanghai
Hours == 0..23

\* no update is taken in while the windows hold this many records: when the
\* updates are handled one at a time, and when they are handled concurrently
MaxRecords == 6
MaxRecordsConcurrent == 1

\* no update is taken in while this many delete_message_after tasks are pending
MaxTasks == 1

----------------------------------------------------------------------------
(* str.lower() and difflib.SequenceMatcher(None, a, b).ratio().            *)

ToLower == [c \in {"A", "C", "D", "H", "J", "V"} |->
              CASE c = "A" -> "a" [] c = "C" -> "c" [] c = "D" -> "d"
                [] c = "H" -> "h" [] c = "J" -> "j" [] c = "V" -> "v"]

lower(s) == [i \in 1..Len(s) |-> IF s[i] \in DOMAIN ToLower THEN ToLower[s[i]] ELSE s[i]]

\* length of the common run of a[i..ahi-1] and b[j..bhi-1] that starts at i, j
RECURSIVE RunLen(_, _, _, _, _, _)
RunLen(a, b, i, j, ahi, bhi) ==
    IF i < ahi /\ j < bhi /\ a[i] = b[j]
    THEN 1 + RunLen(a, b, i + 1, j + 1, ahi, bhi)
    ELSE 0

SetMax(S) == CHOOSE x \in S : \A y \in S : y <= x
SetMin(S) == CHOOSE x \in S : \A y \in S : x <= y

\* SequenceMatcher.find_longest_match over a[alo..ahi-1], b[blo..bhi-1] (no
\* junk; the "popular element" heuristic needs len(b) >= 200): the longest
\* common block, the one that starts earliest in a, and of those the one
\* that starts earliest in b. <<i, j, k>>, k = 0 when nothing matches.
find_longest_match(a, b, alo, ahi, blo, bhi) ==
    LET cells == (alo..(ahi - 1)) \X (blo..(bhi - 1))
        best  == IF cells = {} THEN 0
                 ELSE SetMax({RunLen(a, b, c[1], c[2], ahi, bhi) : c \in cells})
    IN  IF best = 0 THEN <<alo, blo, 0>>
        ELSE LET hits == {c \in cells : RunLen(a, b, c[1], c[2], ahi, bhi) = best}
                 i == SetMin({c[1] : c \in hits})
                 j == SetMin({c[2] : c \in {d \in hits : d[1] = i}})
             IN  <<i, j, best>>

\* SequenceMatcher.get_matching_blocks, summed: the longest block, then the
\* same to its left and to its right
RECURSIVE matches(_, _, _, _, _, _)
matches(a, b, alo, ahi, blo, bhi) ==
    LET m == find_longest_match(a, b, alo, ahi, blo, bhi)
        i == m[1]
        j == m[2]
        k == m[3]
    IN  IF k = 0 THEN 0
        ELSE k
             + (IF alo < i /\ blo < j THEN matches(a, b, alo, i, blo, j) ELSE 0)
             + (IF i + k < ahi /\ j + k < bhi
                THEN matches(a, b, i + k, ahi, j + k, bhi) ELSE 0)

\* ratio() >= SIMILARITY_THRESHOLD: ratio is 2.0 * matches / (len(a) + len(b)),
\* and 1.0 when both are empty
ratio_at_least(a, b, pct) ==
    LET length == Len(a) + Len(b)
    IN  IF length = 0 THEN 100 >= pct
        ELSE 200 * matches(a, b, 1, Len(a) + 1, 1, Len(b) + 1) >= pct * length

is_similar(text1, text2) == ratio_at_least(lower(text1), lower(text2), SIMILARITY_THRESHOLD)

\* Python's `kw in text`
IsSubstring(kw, text) ==
    \E i \in 0..(Len(text) - Len(kw)) : SubSeq(text, i + 1, i + Len(kw)) = kw

\* no case folding, no fuzzy match
contains_spam_keywords_verbatim(text) ==
    SelectSeq(SPAM_KEYWORDS, LAMBDA kw : IsSubstring(kw, text))

\* the first matching keyword only
spam_keyword_matches_first(text, keywords) ==
    LET text_lower == lower(text)
        found == {i \in DOMAIN keywords :
                    IsSubstring(keywords[i], text_lower) \/ is_similar(text_lower, keywords[i])}
    IN  IF found = {} THEN <<>> ELSE << keywords[SetMin(found)] >>

\* lines 87-89, with keywords the list that SPAM_KEYWORDS holds at the call:
\* the list of matching keywords; the empty list stands for False
spam_keyword_matches(text, keywords) ==
    LET text_lower == lower(text)
        hit(kw) == IsSubstring(kw, text_lower) \/ is_similar(text_lower, kw)
    IN  SelectSeq(keywords, hit)

contains_spam_keywords(text) == spam_keyword_matches(text, SPAM_KEYWORDS)

\* the window opens an hour late
is_night_time_after_23(hour) == hour > 23 \/ hour < 7

\* line 101: now.hour >= 23 or now.hour < 7, hour the local hour of line 100
is_night_time(hour) == hour >= 23 \/ hour < 7

----------------------------------------------------------------------------
(* user_messages = defaultdict(list) (line 79): a function from the keys   *)
(* present to lists of records <<timestamp, text>>.                        *)

Window(um, user_id) == IF user_id \in DOMAIN um THEN um[user_id] ELSE <<>>

\* one list for all senders: the value is stored under every key
Store_for_all(um, user_id, value) ==
    [k \in DOMAIN um \cup {user_id} |-> value]

\* user_messages[user_id] = value
Store(um, user_id, value) ==
    [k \in DOMAIN um \cup {user_id} |-> IF k = user_id THEN value ELSE um[k]]

Keeps_strict(rec, t) == t - rec[1] < TIME_WINDOW

\* line 93: [t for t in user_messages[user_id] if now - t[0] <= TIME_WINDOW]
Keeps(rec, t) == t - rec[1] <= TIME_WINDOW

Purge_none(w, t) == w

Purge(w, t) == SelectSeq(w, LAMBDA rec : Keeps(rec, t))

RECURSIVE SimilarCount(_, _)

\* the count taken after the append: the incoming message counts itself
SimilarCount_with_self(w, message_text) ==
    Cardinality({i \in DOMAIN w : is_similar(w[i][2], message_text)}) + 1

\* line 94: sum(1 for _, msg in user_messages[user_id] if is_similar(msg, message_text))
SimilarCount(w, message_text) ==
    IF w = <<>> THEN 0
    ELSE (IF is_similar(Head(w)[2], message_text) THEN 1 ELSE 0)
         + SimilarCount(Tail(w), message_text)

HighFrequency_above(similar_count) == similar_count > MESSAGE_LIMIT

\* line 96: return similar_count >= MESSAGE_LIMIT
HighFrequency(similar_count) == similar_count >= MESSAGE_LIMIT

\* the hour alone decides: the flag is not read
NightSuppress_by_hour_alone(enabled, hour) == is_night_time(hour)

\* line 106: NIGHT_MODE_ENABLED and is_night_time()
NightSuppress(enabled, hour) == enabled /\ is_night_time(hour)

NoText_unchecked(text) == FALSE

\* line 114: not message.text and not message.caption
NoText(text) == text = <<>>

----------------------------------------------------------------------------
(* handle_message coroutines.  pc is the place the coroutine is at:        *)
(*   "idle"          no coroutine in this slot                             *)
(*   "start"         created, not yet run (line 105)                       *)
(*   "night_delete"  awaiting update.effective_message.delete() (line 108) *)
(*   "body"          at line 113, holding the loop                         *)
(*   "hf_purge", "hf_count", "hf_append"                                   *)
(*                   inside is_high_frequency, before lines 92, 94, 95     *)
(*   "delete"        awaiting message.delete() (line 123)                  *)
(*   "restrict", "ban"  awaiting the call of line 126 / 132                *)
(*   "send"          awaiting context.bot.send_message (line 138)          *)
(*   "done"          returned (in `last` only)                             *)
(* t and similar_count are the locals of is_high_frequency.  The other     *)
(* fields record what the coroutine did: seen is the window that the call  *)
(* of is_high_frequency under way found, night is the value of the test of *)
(* line 106, kw the list contains_spam_keywords returned, hf the value     *)
(* is_high_frequency returned ("True", "False"; "none": not called),       *)
(* appended the number of                                                  *)
(* records it appended, calls the network calls that returned with their   *)
(* results, outcome the way it ended.                                      *)

\* str(b)
Str(b) == IF b THEN "True" ELSE "False"

Idle == [pc |-> "idle", user_id |-> 0, text |-> <<>>,
         night |-> FALSE, t |-> 0, similar_count |-> 0, seen |-> <<>>, kw |-> <<>>,
         hf |-> "none", appended |-> 0, calls |-> <<>>, outcome |-> "none"]

\* the places where a coroutine waits for the network
Awaiting == {"night_delete", "delete", "restrict", "ban", "send"}

\* is_high_frequency awaiting between its purge and its count
Sync_await_in_check == {"body", "hf_purge"}

\* the places between two awaits: lines 113-121 and the body of
\* is_high_frequency, a plain function, hold no await
Sync == {"body", "hf_purge", "hf_count", "hf_append"}

\* the coroutines that hold the event loop
Holding == {h \in DOMAIN handlers : handlers[h].pc \in Sync}

\* the event loop can run a step of h, or a callback (h = 0)
CanRun(h) == Holding \subseteq {h}

\* the coroutine slots
Handlers == DOMAIN handlers

InFlight == {h \in Handlers : handlers[h].pc # "idle"}

RecordCap == IF Concurrent THEN MaxRecordsConcurrent ELSE MaxRecords

RECURSIVE SumLen(_, _)
SumLen(um, keys) ==
    IF keys = {} THEN 0
    ELSE LET k == CHOOSE x \in keys : TRUE
         IN  Len(um[k]) + SumLen(um, keys \ {k})

TotalRecords == SumLen(user_messages, DOMAIN user_messages)

Start(slots) ==
    /\ user_messages = <<>>
    /\ NIGHT_MODE_ENABLED = TRUE
    /\ now = 0
    /\ handlers = [h \in slots |-> Idle]
    /\ warning_tasks = 0
    /\ last = Idle
    /\ wake = <<>>

\* no helper is probed, no wrapper is followed
NoProbe == [fn |-> "none"]

NoRetry == [pc |-> "none"]

Init == Start({1}) /\ probe = NoProbe /\ retry = NoRetry

InitConcurrent == Start({1, 2}) /\ probe = NoProbe /\ retry = NoRetry

\* the coroutine returns
Return(h, rec, outcome) ==
    /\ handlers' = [handlers EXCEPT ![h] = Idle]
    /\ last' = [rec EXCEPT !.pc = "done", !.outcome = outcome,
                           !.t = 0, !.similar_count = 0]

\* the coroutine starts to wait at pc
Await(h, rec, pc) ==
    /\ handlers' = [handlers EXCEPT ![h] = [rec EXCEPT !.pc = pc]]
    /\ UNCHANGED last

\* line 105: handle_message is called for an update (the filter of lines
\* 185-187 lets pass the updates with text or caption; the function itself
\* also takes one with neither)
Receive(h, user_id, text) ==
    /\ CanRun(0)
    /\ handlers[h].pc = "idle"
    /\ TotalRecords < RecordCap
    /\ warning_tasks < MaxTasks
    /\ handlers' = [handlers EXCEPT ![h] =
                      [Idle EXCEPT !.pc = "start", !.user_id = user_id,
                                   !.text = text]]
    /\ last' = Idle
    /\ UNCHANGED <<user_messages, NIGHT_MODE_ENABLED, now, warning_tasks>>
    /\ UNCHANGED <<probe, retry, wake>>

\* lines 106-108: the night-mode test, and the start of the delete
Begin(h, hour) ==
    /\ CanRun(0)
    /\ handlers[h].pc = "start"
    /\ LET night == NightSuppress(NIGHT_MODE_ENABLED, hour)
           rec   == [handlers[h] EXCEPT !.night = night]
       IN  IF night
           THEN Await(h, rec, "night_delete")
           ELSE /\ handlers' = [handlers EXCEPT ![h] = [rec EXCEPT !.pc = "body"]]
                /\ UNCHANGED last
    /\ UNCHANGED <<user_messages, NIGHT_MODE_ENABLED, now, warning_tasks>>
    /\ UNCHANGED <<probe, retry, wake>>

\* lines 108-111: the delete returns (return), or raises (logged, and the
\* coroutine goes on to line 113)
NightDeleteReturn(h, ok) ==
    /\ CanRun(0)
    /\ handlers[h].pc = "night_delete"
    /\ LET rec == [handlers[h] EXCEPT !.calls = Append(@, <<"delete", ok>>)]
       IN  IF ok
           THEN Return(h, rec, "SuppressSilent")
           ELSE /\ handlers' = [handlers EXCEPT ![h] = [rec EXCEPT !.pc = "body"]]
                /\ UNCHANGED last
    /\ UNCHANGED <<user_messages, NIGHT_MODE_ENABLED, now, warning_tasks>>
    /\ UNCHANGED <<probe, retry, wake>>

\* lines 113-121: no text, no caption: return; else the keyword test, and on
\* no match the call of is_high_frequency (the right operand of `or`)
Body(h) ==
    /\ CanRun(h)
    /\ handlers[h].pc = "body"
    /\ IF NoText(handlers[h].text)
       THEN Return(h, handlers[h], "Allow")
       ELSE LET kw  == contains_spam_keywords(handlers[h].text)
                rec == [handlers[h] EXCEPT !.kw = kw]
            IN  IF kw # <<>>
                THEN Await(h, rec, "delete")
                ELSE /\ handlers' = [handlers EXCEPT ![h] = [rec EXCEPT !.pc = "hf_purge"]]
                     /\ UNCHANGED last
    /\ UNCHANGED <<user_messages, NIGHT_MODE_ENABLED, now, warning_tasks>>
    /\ UNCHANGED <<probe, retry, wake>>

\* lines 92-93
HfPurge(h) ==
    /\ CanRun(h)
    /\ handlers[h].pc = "hf_purge"
    /\ LET user_id == handlers[h].user_id
       IN  user_messages' = Store(user_messages, user_id,
                                  Purge(Window(user_messages, user_id), now))
    /\ handlers' = [handlers EXCEPT ![h].t = now, ![h].pc = "hf_count",
                                    ![h].seen = Window(user_messages, handlers[h].user_id)]
    /\ UNCHANGED <<NIGHT_MODE_ENABLED, now, warning_tasks, last>>
    /\ UNCHANGED <<probe, retry, wake>>

\* line 94
HfCount(h) ==
    /\ CanRun(h)
    /\ handlers[h].pc = "hf_count"
    /\ handlers' = [handlers EXCEPT
                      ![h].similar_count =
                          SimilarCount(Window(user_messages, handlers[h].user_id),
                                       handlers[h].text),
                      ![h].pc = "hf_append"]
    /\ UNCHANGED <<user_messages, NIGHT_MODE_ENABLED, now, warning_tasks, last>>
    /\ UNCHANGED <<probe, retry, wake>>

\* lines 95-96, and the branch of line 121 on the value returned
HfAppend(h) ==
    /\ CanRun(h)
    /\ handlers[h].pc = "hf_append"
    /\ LET user_id == handlers[h].user_id
           hf      == HighFrequency(handlers[h].similar_count)
           rec     == [handlers[h] EXCEPT !.hf = Str(hf), !.appended = @ + 1,
                                          !.t = 0, !.similar_count = 0,
                                          !.seen = <<>>]
       IN  /\ user_messages' =
                 Store(user_messages, user_id,
                       Append(Window(user_messages, user_id),
                              <<handlers[h].t, handlers[h].text>>))
           /\ IF hf THEN Await(h, rec, "delete") ELSE Return(h, rec, "Allow")
    /\ UNCHANGED <<NIGHT_MODE_ENABLED, now, warning_tasks>>
    /\ UNCHANGED <<probe, retry, wake>>

\* the error of a failed delete is not caught at line 144: it reaches the
\* wrapper of line 104, which calls handle_message again for the same update
DeleteReturn_retried(h, ok, action) ==
    /\ CanRun(0)
    /\ handlers[h].pc = "delete"
    /\ LET rec == [handlers[h] EXCEPT !.calls = Append(@, <<"delete", ok>>)]
       IN  IF ~ok THEN Await(h, rec, "start")
           ELSE Await(h, rec, CASE action = "mute" -> "restrict"
                                [] action = "kick" -> "ban"
                                [] OTHER -> "send")
    /\ UNCHANGED <<user_messages, NIGHT_MODE_ENABLED, now, warning_tasks>>
    /\ UNCHANGED <<probe, retry, wake>>

\* a failed delete takes the record of the message out of the window again
DeleteReturn_rollback(h, ok, action) ==
    /\ CanRun(0)
    /\ handlers[h].pc = "delete"
    /\ LET rec == [handlers[h] EXCEPT !.calls = Append(@, <<"delete", ok>>)]
           w   == Window(user_messages, rec.user_id)
       IN  IF ~ok
           THEN /\ Return(h, rec, "SuppressAndPenalize")
                /\ user_messages' =
                      IF rec.appended > 0
                      THEN Store(user_messages, rec.user_id, SubSeq(w, 1, Len(w) - 1))
                      ELSE user_messages
           ELSE /\ Await(h, rec, CASE action = "mute" -> "restrict"
                                   [] action = "kick" -> "ban"
                                   [] OTHER -> "send")
                /\ UNCHANGED user_messages
    /\ UNCHANGED <<NIGHT_MODE_ENABLED, now, warning_tasks>>
    /\ UNCHANGED <<probe, retry, wake>>

\* lines 123-136: message.delete() returns, and the penalty call that the
\* action argument selects (it is read here only) or the warning is started;
\* or it raises (lines 144-145)
DeleteReturn(h, ok, action) ==
    /\ CanRun(0)
    /\ handlers[h].pc = "delete"
    /\ LET rec == [handlers[h] EXCEPT !.calls = Append(@, <<"delete", ok>>)]
       IN  IF ~ok THEN Return(h, rec, "SuppressAndPenalize")
           ELSE Await(h, rec, CASE action = "mute" -> "restrict"
                                [] action = "kick" -> "ban"
                                [] OTHER -> "send")
    /\ UNCHANGED <<user_messages, NIGHT_MODE_ENABLED, now, warning_tasks>>
    /\ UNCHANGED <<probe, retry, wake>>

\* a failed penalty call is passed over, and the warning is sent all the same
PenaltyReturn_goes_on(h, ok) ==
    /\ CanRun(0)
    /\ handlers[h].pc \in {"restrict", "ban"}
    /\ Await(h, [handlers[h] EXCEPT !.calls = Append(@, <<handlers[h].pc, ok>>)],
             "send")
    /\ UNCHANGED <<user_messages, NIGHT_MODE_ENABLED, now, warning_tasks>>
    /\ UNCHANGED <<probe, retry, wake>>

\* lines 126-136: restrict_chat_member / ban_chat_member returns or raises
PenaltyReturn(h, ok) ==
    /\ CanRun(0)
    /\ handlers[h].pc \in {"restrict", "ban"}
    /\ LET rec == [handlers[h] EXCEPT !.calls = Append(@, <<handlers[h].pc, ok>>)]
       IN  IF ok THEN Await(h, rec, "send")
           ELSE Return(h, rec, "SuppressAndPenalize")
    /\ UNCHANGED <<user_messages, NIGHT_MODE_ENABLED, now, warning_tasks>>
    /\ UNCHANGED <<probe, retry, wake>>

\* lines 138-145: send_message returns and the delete_message_after task is
\* created; or it raises
SendReturn(h, ok) ==
    /\ CanRun(0)
    /\ handlers[h].pc = "send"
    /\ Return(h, [handlers[h] EXCEPT !.calls = Append(@, <<"send", ok>>)],
              "SuppressAndPenalize")
    /\ warning_tasks' = IF ok THEN warning_tasks + 1 ELSE warning_tasks
    /\ UNCHANGED <<user_messages, NIGHT_MODE_ENABLED, now>>
    /\ UNCHANGED <<probe, retry>>

\* lines 147-152: a delete_message_after task wakes up and deletes the
\* warning; a failure is logged
delete_message_after(ok) ==
    /\ CanRun(0)
    /\ warning_tasks > 0
    /\ ok \in BOOLEAN
    /\ warning_tasks' = warning_tasks - 1
    /\ UNCHANGED <<user_messages, NIGHT_MODE_ENABLED, now, handlers, last>>
    /\ UNCHANGED <<probe, retry>>

\* lines 159-162
night_mode_on ==
    /\ CanRun(0)
    /\ NIGHT_MODE_ENABLED' = TRUE
    /\ UNCHANGED <<user_messages, now, handlers, warning_tasks, last>>
    /\ UNCHANGED <<probe, retry, wake>>

\* lines 164-167
night_mode_off ==
    /\ CanRun(0)
    /\ NIGHT_MODE_ENABLED' = FALSE
    /\ UNCHANGED <<user_messages, now, handlers, warning_tasks, last>>
    /\ UNCHANGED <<probe, retry, wake>>

\* the system clock moves on
Tick(t) ==
    /\ t > now
    /\ now' = t
    /\ UNCHANGED <<user_messages, NIGHT_MODE_ENABLED, handlers, warning_tasks, last>>
    /\ UNCHANGED <<probe, retry, wake>>

Next ==
    \/ \E h \in Handlers, u \in Senders, txt \in Texts : Receive(h, u, txt)
    \/ \E h \in Handlers, hour \in Hours : Begin(h, hour)
    \/ \E h \in Handlers, ok \in BOOLEAN : NightDeleteReturn(h, ok)
    \/ \E h \in Handlers : Body(h)
    \/ \E h \in Handlers : HfPurge(h)
    \/ \E h \in Handlers : HfCount(h)
    \/ \E h \in Handlers : HfAppend(h)
    \/ \E h \in Handlers, ok \in BOOLEAN, act \in Actions : DeleteReturn(h, ok, act)
    \/ \E h \in Handlers, ok \in BOOLEAN : PenaltyReturn(h, ok)
    \/ \E h \in Handlers, ok \in BOOLEAN : SendReturn(h, ok) /\ UNCHANGED wake
    \/ \E ok \in BOOLEAN : delete_message_after(ok) /\ UNCHANGED wake
    \/ night_mode_on
    \/ night_mode_off
    \/ \E t \in Instants : Tick(t)

\* the updates are handled one at a time
Spec == Init /\ [][Next]_vars

\* the updates are handled concurrently
SpecConcurrent == InitConcurrent /\ [][Next]_vars

----------------------------------------------------------------------------
(* The bot with the clock of the delete_message_after tasks: the task that *)
(* line 142 creates sleeps delay_seconds (line 148) before it deletes the  *)
(* warning.  These runs handle the updates one at a time, with short       *)
(* windows, over the clock readings around delay_seconds.                  *)

\* line 142: delete_message_after(warning_msg, 14*60)
delay_seconds == 14 * 60

TimedInstants == {0, 1, delay_seconds - 1, delay_seconds, delay_seconds + 1}

\* a text with a keyword and one without
TimedTexts == { <<"A", "d">>, <<"y">> }

\* no update is taken in while the windows hold this many records
MaxRecordsTimed == 1

\* seq without its i-th element
Remove(seq, i) == SubSeq(seq, 1, i - 1) \o SubSeq(seq, i + 1, Len(seq))

\* the sleep ends as soon as the task runs
Awake_at_once(due, t) == TRUE

\* line 148: the sleep that ends at time `due` has ended at time t
Awake(due, t) == t >= due

\* lines 138-142 and 148: send_message returns or raises; the task that is
\* created starts to sleep
create_task(h, ok) ==
    /\ SendReturn(h, ok)
    /\ wake' = IF ok THEN Append(wake, now + delay_seconds) ELSE wake

\* lines 148-152: the sleep of the i-th pending task has ended, and the task
\* deletes the warning or fails to
sleep_then_delete(i, ok) ==
    /\ i \in DOMAIN wake
    /\ Awake(wake[i], now)
    /\ delete_message_after(ok)
    /\ wake' = Remove(wake, i)

NextTimed ==
    \/ \E h \in Handlers, txt \in TimedTexts :
          TotalRecords < MaxRecordsTimed /\ Receive(h, 1, txt)
    \/ \E h \in Handlers, hour \in Hours : Begin(h, hour)
    \/ \E h \in Handlers, ok \in BOOLEAN : NightDeleteReturn(h, ok)
    \/ \E h \in Handlers : Body(h)
    \/ \E h \in Handlers : HfPurge(h)
    \/ \E h \in Handlers : HfCount(h)
    \/ \E h \in Handlers : HfAppend(h)
    \/ \E h \in Handlers, ok \in BOOLEAN, act \in Actions : DeleteReturn(h, ok, act)
    \/ \E h \in Handlers, ok \in BOOLEAN : PenaltyReturn(h, ok)
    \/ \E h \in Handlers, ok \in BOOLEAN : create_task(h, ok)
    \/ \E i \in DOMAIN wake, ok \in BOOLEAN : sleep_then_delete(i, ok)
    \/ night_mode_on
    \/ night_mode_off
    \/ \E t \in TimedInstants : Tick(t)

\* time passes; a coroutine that holds the event loop runs on to its next
\* await; the event loop runs its ready callbacks in turn, so a task whose
\* sleep has ended is run
SpecTimed ==
    /\ Init
    /\ [][NextTimed]_vars
    /\ WF_vars(\E t \in TimedInstants : Tick(t))
    /\ \A h \in {1} : WF_vars(Body(h) \/ HfPurge(h) \/ HfCount(h) \/ HfAppend(h))
    /\ SF_vars(\E i \in DOMAIN wake, ok \in BOOLEAN : sleep_then_delete(i, ok))

----------------------------------------------------------------------------
(* The bot with two senders and long windows: the updates are handled one  *)
(* at a time, and both senders send the same text, so that the window of   *)
(* either can grow until the frequency check flags a message.              *)

TwoSenders == {1, 2}

\* "hey", which holds no keyword
SenderTexts == { <<"h", "e", "y">> }

NextSenders ==
    \/ \E h \in Handlers, u \in TwoSenders, txt \in SenderTexts : Receive(h, u, txt)
    \/ \E h \in Handlers, hour \in Hours : Begin(h, hour)
    \/ \E h \in Handlers, ok \in BOOLEAN : NightDeleteReturn(h, ok)
    \/ \E h \in Handlers : Body(h)
    \/ \E h \in Handlers : HfPurge(h)
    \/ \E h \in Handlers : HfCount(h)
    \/ \E h \in Handlers : HfAppend(h)
    \/ \E h \in Handlers, ok \in BOOLEAN, act \in Actions : DeleteReturn(h, ok, act)
    \/ \E h \in Handlers, ok \in BOOLEAN : PenaltyReturn(h, ok)
    \/ \E h \in Handlers, ok \in BOOLEAN : SendReturn(h, ok) /\ UNCHANGED wake
    \/ \E ok \in BOOLEAN : delete_message_after(ok) /\ UNCHANGED wake
    \/ night_mode_on
    \/ night_mode_off
    \/ \E t \in Instants : Tick(t)

SpecSenders == Init /\ [][NextSenders]_vars

----------------------------------------------------------------------------
(* The helper functions on their own: one call of is_similar,              *)
(* contains_spam_keywords or is_night_time on arguments drawn at the       *)
(* start.                                                                  *)

CLICK_HERE == <<"c", "l", "i", "c", "k", " ", "h", "e", "r", "e">>

FREE_GIFT == <<"f", "r", "e", "e", " ", "g", "i", "f", "t">>

\* "Click here for a free gift!"
FreeGiftText ==
    <<"C", "l", "i", "c", "k", " ", "h", "e", "r", "e", " ", "f", "o", "r", " ",
      "a", " ", "f", "r", "e", "e", " ", "g", "i", "f", "t", "!">>

\* "ok jV ok": the keyword "jV" with text around it
AddVText == <<"o", "k", " ", "j", "V", " ", "o", "k">>

\* the texts the helpers are called on
ProbeTexts ==
    { <<>>, <<"A", "d">>, <<"b", "a", "d">>, <<"h", "e", "y">>,
      <<"j", "V">>, <<"j", "v">>, AddVText, FreeGiftText,
      <<"a", "a", "b", "a">>, <<"b", "a", "a", "a">> }

\* the lists SPAM_KEYWORDS can hold: the list of the model, two more entries
\* of lines 39-49 in both orders, and none
KeywordLists ==
    { SPAM_KEYWORDS, <<CLICK_HERE, FREE_GIFT>>, <<FREE_GIFT, CLICK_HERE>>, <<>> }

InitProbe ==
    /\ Start({})
    /\ retry = NoRetry
    /\ probe \in [fn : {"none"}, text1 : ProbeTexts, text2 : ProbeTexts,
                  keywords : KeywordLists, hour : Hours,
                  similar : {"none"}, matches : {<<>>}, night : {"none"}]

\* is_similar(text1, text2) is called (lines 83-84)
Call_is_similar ==
    /\ probe.fn = "none"
    /\ probe' = [probe EXCEPT !.fn = "is_similar",
                              !.similar = Str(is_similar(probe.text1, probe.text2))]
    /\ UNCHANGED <<user_messages, NIGHT_MODE_ENABLED, now, handlers, warning_tasks,
                   last, retry, wake>>

\* contains_spam_keywords(text1) is called (lines 86-89)
Call_contains_spam_keywords ==
    /\ probe.fn = "none"
    /\ probe' = [probe EXCEPT !.fn = "contains_spam_keywords",
                              !.matches = spam_keyword_matches(probe.text1, probe.keywords)]
    /\ UNCHANGED <<user_messages, NIGHT_MODE_ENABLED, now, handlers, warning_tasks,
                   last, retry, wake>>

\* is_night_time() is called at the local hour `hour` (lines 98-101)
Call_is_night_time ==
    /\ probe.fn = "none"
    /\ probe' = [probe EXCEPT !.fn = "is_night_time",
                              !.night = Str(is_night_time(probe.hour))]
    /\ UNCHANGED <<user_messages, NIGHT_MODE_ENABLED, now, handlers, warning_tasks,
                   last, retry, wake>>

NextProbe ==
    \/ Call_is_similar
    \/ Call_contains_spam_keywords
    \/ Call_is_night_time

SpecProbe == InitProbe /\ [][NextProbe]_vars

----------------------------------------------------------------------------
(* The wrapper that retry_on_network_error builds (lines 52-76), around    *)
(* any coroutine function func.  pc is the place the wrapper is at:        *)
(*   "start"     called, lines 57-59 not yet run                           *)
(*   "func"      awaiting the call of func (line 63)                     *)
(*   "sleep"     awaiting asyncio.sleep(delay) (line 69)                   *)
(*   "returned"  returned the value `returned`                             *)
(*   "raised"    raised the exception `raised`                             *)
(* retries, delay and last_error are its locals; outcomes lists what each  *)
(* call of func ended with, slept the delays of the sleeps that ended.     *)

\* the defaults of line 52
DEFAULT_MAX_RETRIES == 10
DEFAULT_INITIAL_DELAY == 5
DEFAULT_BACKOFF_FACTOR == 2

\* the arguments the decorator is built with
MaxRetriesArgs == {0, 1, 3, DEFAULT_MAX_RETRIES}

InitialDelayArgs == {1, DEFAULT_INITIAL_DELAY}

BackoffFactorArgs == {DEFAULT_BACKOFF_FACTOR, 3}

\* the exceptions of line 64, and one that is none of them
NetworkErrors == {"httpx.NetworkError", "telegram.error.NetworkError"}

OtherErrors == {"Exception"}

InitRetry ==
    /\ Start({})
    /\ probe = NoProbe
    /\ retry \in [pc : {"start"}, max_retries : MaxRetriesArgs,
                  initial_delay : InitialDelayArgs, backoff_factor : BackoffFactorArgs,
                  retries : {0}, delay : {0}, last_error : {"None"},
                  outcomes : {<<>>}, slept : {<<>>},
                  returned : {"none"}, raised : {"none"}]

\* one attempt too many
KeepTrying_once_more(retries, max_retries) == retries <= max_retries

\* lines 61 and 67: retries < max_retries
KeepTrying(retries, max_retries) == retries < max_retries

\* line 61, and line 74 when the loop ends: raise last_error (raise None is a
\* TypeError)
Loop(rec) ==
    IF KeepTrying(rec.retries, rec.max_retries)
    THEN [rec EXCEPT !.pc = "func"]
    ELSE [rec EXCEPT !.pc = "raised",
                     !.raised = IF rec.last_error = "None" THEN "TypeError"
                                ELSE rec.last_error]

\* lines 57-61: the wrapper is entered
Enter ==
    /\ retry.pc = "start"
    /\ retry' = Loop([retry EXCEPT !.retries = 0, !.delay = retry.initial_delay,
                                   !.last_error = "None"])
    /\ UNCHANGED <<user_messages, NIGHT_MODE_ENABLED, now, handlers, warning_tasks,
                   last, probe, wake>>

\* line 63: func returns
FuncReturns ==
    /\ retry.pc = "func"
    /\ retry' = [retry EXCEPT !.pc = "returned", !.returned = "value",
                              !.outcomes = Append(@, "ok")]
    /\ UNCHANGED <<user_messages, NIGHT_MODE_ENABLED, now, handlers, warning_tasks,
                   last, probe, wake>>

\* lines 64-68: func raises a network error; the wrapper goes to sleep, or
\* (after the last attempt) leaves the loop and raises
FuncRaisesNetworkError(e) ==
    /\ retry.pc = "func"
    /\ LET rec == [retry EXCEPT !.last_error = e, !.retries = @ + 1,
                                !.outcomes = Append(@, e)]
       IN  retry' = IF KeepTrying(rec.retries, rec.max_retries)
                    THEN [rec EXCEPT !.pc = "sleep"]
                    ELSE Loop(rec)
    /\ UNCHANGED <<user_messages, NIGHT_MODE_ENABLED, now, handlers, warning_tasks,
                   last, probe, wake>>

\* lines 71-73: func raises another exception
FuncRaisesOther(e) ==
    /\ retry.pc = "func"
    /\ retry' = [retry EXCEPT !.pc = "raised", !.raised = e,
                              !.outcomes = Append(@, e)]
    /\ UNCHANGED <<user_messages, NIGHT_MODE_ENABLED, now, handlers, warning_tasks,
                   last, probe, wake>>

\* lines 69-70, and the loop test of line 61: the sleep ends
SleepReturns ==
    /\ retry.pc = "sleep"
    /\ retry' = Loop([retry EXCEPT !.slept = Append(@, retry.delay),
                                   !.delay = @ * retry.backoff_factor])
    /\ UNCHANGED <<user_messages, NIGHT_MODE_ENABLED, now, handlers, warning_tasks,
                   last, probe, wake>>

NextRetry ==
    \/ Enter
    \/ FuncReturns
    \/ \E e \in NetworkErrors : FuncRaisesNetworkError(e)
    \/ \E e \in OtherErrors : FuncRaisesOther(e)
    \/ SleepReturns

\* every call of func ends, and so does every sleep
SpecRetry == InitRetry /\ [][NextRetry]_vars /\ WF_vars(NextRetry)

----------------------------------------------------------------------------
(* What the claims are stated with.                                        *)

Done == last.pc = "done"

\* the window of the sender of the call that returned last
LastWindow == Window(user_messages, last.user_id)

\* h takes a step
Steps(h) == handlers'[h] # handlers[h]

\* the record of h after its step
After(h) == IF handlers'[h].pc = "idle" THEN last' ELSE handlers'[h]

Range(w) == {w[i] : i \in DOMAIN w}

Occurrences(rec, w) == Cardinality({i \in DOMAIN w : w[i] = rec})

\* the records of w that a check at time t keeps and that are similar to text
SurvivingSimilar(w, t, text) ==
    {i \in DOMAIN w : t - w[i][1] <= TIME_WINDOW /\ is_similar(w[i][2], text)}

----------------------------------------------------------------------------
\* The call that returned last ran the frequency check, and its sender's
\* window now holds n records, all with the text of the call and all within
\* TIME_WINDOW of it: the check was the n-th of n identical messages sent
\* within TIME_WINDOW, starting from an empty window.
C1_Identical(n) ==
    /\ Done
    /\ last.appended = 1
    /\ Len(LastWindow) = n
    /\ \A i \in DOMAIN LastWindow :
          /\ LastWindow[i][2] = last.text
          /\ LastWindow[n][1] - LastWindow[i][1] <= TIME_WINDOW

\* C1 as the spec states it: of 5 identical messages within TIME_WINDOW the
\* 5th check returns true and the 4th returns false.
C1_Original ==
    /\ C1_Identical(MESSAGE_LIMIT) => last.hf = "True"
    /\ C1_Identical(MESSAGE_LIMIT - 1) => last.hf = "False"

\* C1, amended: of identical messages within TIME_WINDOW the 6th check
\* (MESSAGE_LIMIT + 1) returns true and the 5th and every earlier one
\* returns false.
C1_SixthIsFlagged ==
    \A n \in 1..(MESSAGE_LIMIT + 1) :
        C1_Identical(n) => ((last.hf = "True") <=> (n = MESSAGE_LIMIT + 1))

C1_Witness == C1_Identical(MESSAGE_LIMIT + 1) /\ last.hf = "True"

\* C2: the frequency check returns true if and only if at least
\* MESSAGE_LIMIT of the records it found in the sender's window are no older
\* than TIME_WINDOW and similar to the incoming text; the incoming message
\* is not among the records counted.
C2_ResultIsCountOfPriorRecords ==
    [][\A h \in Handlers :
          (handlers[h].pc = "hf_append" /\ Steps(h)) =>
              (After(h).hf = "True") <=>
                  (Cardinality(SurvivingSimilar(handlers[h].seen, handlers[h].t,
                                                handlers[h].text)) >= MESSAGE_LIMIT)]_vars

C2_Witness ==
    \E h \in Handlers :
        /\ handlers[h].pc = "delete"
        /\ handlers[h].hf = "True"
        /\ Len(Window(user_messages, handlers[h].user_id)) = MESSAGE_LIMIT + 1

\* C3: after the purge of a frequency check the window holds no record
\* older than TIME_WINDOW and every record of age TIME_WINDOW or less, as
\* often as before, and the count is the number of similar records among
\* those kept.
C3_PurgeByAge ==
    \A h \in Handlers :
        handlers[h].pc \in {"hf_count", "hf_append"} =>
            LET w    == Window(user_messages, handlers[h].user_id)
                seen == handlers[h].seen
                t    == handlers[h].t
            IN  /\ \A i \in DOMAIN seen :
                      IF t - seen[i][1] > TIME_WINDOW
                      THEN seen[i] \notin Range(w)
                      ELSE Occurrences(seen[i], w) = Occurrences(seen[i], seen)
                /\ Range(w) \subseteq Range(seen)
                /\ handlers[h].pc = "hf_append" =>
                      handlers[h].similar_count =
                          Cardinality(SurvivingSimilar(seen, t, handlers[h].text))

\* text T at t = 0 and at t = 1, and again at t = 31: the record of t = 0 is
\* gone, the record of t = 1 (age TIME_WINDOW) is kept and counted
C3_Witness ==
    \E h \in Handlers :
        /\ handlers[h].pc = "hf_append"
        /\ handlers[h].t = TIME_WINDOW + 1
        /\ handlers[h].seen = << <<0, handlers[h].text>>, <<1, handlers[h].text>> >>
        /\ Window(user_messages, handlers[h].user_id) = << <<1, handlers[h].text>> >>
        /\ handlers[h].similar_count = 1

\* C4 as the spec states it: a call with a text, made while the night-mode
\* test of line 106 is false, appends exactly one record <<now, text>> to the
\* window of its sender, whatever the keyword test and the frequency check say.
C4_EveryEvaluatedMessageIsRecorded ==
    (Done /\ ~last.night /\ last.text # <<>>) =>
        /\ last.appended = 1
        /\ LastWindow # <<>>
        /\ LastWindow[Len(LastWindow)][2] = last.text

\* C5 as the spec states it: a call made while the night-mode test of line
\* 106 is true ends as SuppressSilent, also when the delete fails: no keyword
\* test, no frequency check, no record appended, no call but the one delete.
C5_NightShortCircuits ==
    (Done /\ last.night) =>
        /\ last.outcome = "SuppressSilent"
        /\ last.kw = <<>>
        /\ last.hf = "none"
        /\ last.appended = 0
        /\ Len(last.calls) = 1

\* some keyword is held by the case-folded text or is similar to it
KeywordMatch(text) ==
    \E i \in DOMAIN SPAM_KEYWORDS :
        \/ IsSubstring(SPAM_KEYWORDS[i], lower(text))
        \/ is_similar(lower(text), SPAM_KEYWORDS[i])

\* the records that the call that returned last found similar in its window
LastPriorSimilar ==
    {i \in 1..(Len(LastWindow) - 1) : is_similar(LastWindow[i][2], last.text)}

\* C6: a call with a text, made while the night-mode test is false, starts
\* the delete (and ends as SuppressAndPenalize) if and only if a keyword
\* matches or at least MESSAGE_LIMIT prior records of the window are similar;
\* otherwise it ends as Allow and makes no network call.
C6_SuppressedIffKeywordOrFrequency ==
    (Done /\ ~last.night /\ last.text # <<>>) =>
        LET matched  == KeywordMatch(last.text)
            highFreq == /\ last.appended = 1
                        /\ Cardinality(LastPriorSimilar) >= MESSAGE_LIMIT
        IN  IF matched \/ highFreq
            THEN /\ last.outcome = "SuppressAndPenalize"
                 /\ last.calls # <<>>
                 /\ last.calls[1][1] = "delete"
            ELSE /\ last.outcome = "Allow"
                 /\ last.calls = <<>>

\* a message without keyword is suppressed for its frequency
C6_Witness ==
    /\ Done
    /\ ~last.night
    /\ last.text = <<"h", "e", "y">>
    /\ last.hf = "True"
    /\ last.outcome = "SuppressAndPenalize"
    /\ last.calls[1] = <<"delete", TRUE>>

\* C7: no step of a call without text and caption, made while the
\* night-mode test is false, changes a window or creates a task, and the call
\* ends as Allow without a network call, a keyword match or a frequency check.
C7_NoTextChangesNothing ==
    [][\A h \in Handlers :
          (Steps(h) /\ After(h).text = <<>> /\ ~After(h).night) =>
              /\ user_messages' = user_messages
              /\ warning_tasks' = warning_tasks
              /\ After(h).pc = "done" =>
                    /\ After(h).outcome = "Allow"
                    /\ After(h).calls = <<>>
                    /\ After(h).appended = 0
                    /\ After(h).hf = "none"
                    /\ After(h).kw = <<>>]_vars

\* a call of sender 1 without text has returned: sender 2 has a window,
\* sender 1 still has none
C7_Witness ==
    /\ Done
    /\ last.text = <<>>
    /\ ~last.night
    /\ last.outcome = "Allow"
    /\ last.user_id = 1
    /\ DOMAIN user_messages = {2}

\* C8 as the spec states it: in every state, every record of every window
\* is no older than TIME_WINDOW.
C8_Original ==
    \A u \in DOMAIN user_messages :
        \A i \in DOMAIN user_messages[u] : now - user_messages[u][i][1] <= TIME_WINDOW

\* the steps of is_high_frequency that write the window: h is at one
WritesWindow(h) == handlers[h].pc \in {"hf_purge", "hf_append"} /\ Steps(h)

\* C8, amended: right after the purge and after the append of a frequency
\* check made at time t, every record of the window of its sender is no
\* older than TIME_WINDOW at t; no other step changes a window, so the
\* records of a sender stay, however old, until that sender's next check,
\* and a key never leaves the mapping.
C8_FreshAfterCheckOnly ==
    /\ [][\A h \in Handlers :
             WritesWindow(h) =>
                 LET t == IF handlers[h].pc = "hf_purge" THEN now ELSE handlers[h].t
                     w == user_messages'[handlers[h].user_id]
                 IN  \A i \in DOMAIN w : t - w[i][1] <= TIME_WINDOW]_vars
    /\ [][\A u \in DOMAIN user_messages :
             /\ u \in DOMAIN user_messages'
             /\ (\A h \in Handlers : ~(WritesWindow(h) /\ handlers[h].user_id = u))
                   => user_messages'[u] = user_messages[u]]_vars

\* sender 1 has just been checked, and the records of sender 2 are all
\* older than TIME_WINDOW
C8_Witness ==
    /\ Done
    /\ last.appended = 1
    /\ last.user_id = 1
    /\ 2 \in DOMAIN user_messages
    /\ user_messages[2] # <<>>
    /\ \A i \in DOMAIN user_messages[2] : now - user_messages[2][i][1] > TIME_WINDOW

\* C9: the purge, the count and the append of a frequency check are one
\* atomic step for every other call: while a call is between its purge and
\* its append no other call holds the event loop, the window is the one its
\* purge left and its count is the count of that window; a step changes a
\* window only by the purge or the append of the call that takes it, so no
\* record is lost; and the value returned is the one the window at the
\* append gives, as in the serial order of the appends.
C9_InCheck(h) == handlers[h].pc \in {"hf_count", "hf_append"}

C9_CheckIsAtomic ==
    /\ [](\A h \in Handlers :
             C9_InCheck(h) =>
                 LET w == Window(user_messages, handlers[h].user_id)
                 IN  /\ \A g \in Handlers \ {h} : handlers[g].pc \notin Sync
                     /\ w = Purge(handlers[h].seen, handlers[h].t)
                     /\ handlers[h].pc = "hf_append" =>
                           handlers[h].similar_count = SimilarCount(w, handlers[h].text))
    /\ [][\A u \in DOMAIN user_messages' :
             \/ u \in DOMAIN user_messages /\ user_messages'[u] = user_messages[u]
             \/ \E h \in Handlers :
                   /\ Steps(h)
                   /\ handlers[h].user_id = u
                   /\ \/ /\ handlers[h].pc = "hf_purge"
                         /\ user_messages'[u] = Purge(Window(user_messages, u), now)
                      \/ /\ handlers[h].pc = "hf_append"
                         /\ user_messages'[u] =
                               Append(user_messages[u], <<handlers[h].t, handlers[h].text>>)
                         /\ (After(h).hf = "True") <=>
                               (Cardinality(SurvivingSimilar(user_messages[u], handlers[h].t,
                                                             handlers[h].text))
                                   >= MESSAGE_LIMIT)]_vars

\* a call that waited for its night-mode delete is in its check while
\* another call of the same sender is waiting for the network
C9_Witness ==
    \E h \in Handlers : \E g \in Handlers \ {h} :
        /\ handlers[h].pc = "hf_append"
        /\ handlers[h].night
        /\ handlers[g].pc \in Awaiting
        /\ handlers[g].user_id = handlers[h].user_id

\* C10: the network calls do not touch the history: no step in which a
\* delete, a restriction, a ban or a send returns or fails, and no step of a
\* delete_message_after task, changes a window or the night-mode flag; a
\* call that appended its record ends with that record last in the window,
\* whatever failed.
C10_FailuresKeepHistory ==
    /\ [](Done /\ last.appended = 1 =>
             /\ LastWindow # <<>>
             /\ LastWindow[Len(LastWindow)][2] = last.text)
    /\ [][(\/ \E h \in Handlers : Steps(h) /\ handlers[h].pc \in Awaiting
           \/ warning_tasks' < warning_tasks)
             => /\ user_messages' = user_messages
                /\ NIGHT_MODE_ENABLED' = NIGHT_MODE_ENABLED]_vars

\* the delete of a message flagged for its frequency failed
C10_Witness ==
    /\ Done
    /\ last.appended = 1
    /\ last.hf = "True"
    /\ last.calls = << <<"delete", FALSE>> >>
    /\ Len(LastWindow) = MESSAGE_LIMIT + 1

----------------------------------------------------------------------------
\* C11: night_mode_on leaves the flag true and night_mode_off leaves it
\* false, whatever it was, each in one step that changes nothing else (no
\* window, no coroutine, no task; the keyword list is a constant); a step
\* that changes the flag changes nothing else; and a call whose night-mode
\* test (line 106) is made while the flag is false takes the test as false at
\* every hour, the night hours included, so that a call ends as
\* SuppressSilent only if its test was made while the flag was true.
C11_FlagFlipsAndNothingElse ==
    /\ [][/\ night_mode_on => NIGHT_MODE_ENABLED' = TRUE
          /\ night_mode_off => NIGHT_MODE_ENABLED' = FALSE
          /\ NIGHT_MODE_ENABLED' # NIGHT_MODE_ENABLED =>
                UNCHANGED <<user_messages, now, handlers, warning_tasks, last>>]_vars
    /\ [][\A h \in Handlers :
             (Steps(h) /\ handlers[h].pc = "start") =>
                 \A hour \in Hours :
                     Begin(h, hour) =>
                         /\ ~NIGHT_MODE_ENABLED =>
                               (~handlers'[h].night /\ handlers'[h].pc = "body")
                         /\ handlers'[h].night <=>
                               (NIGHT_MODE_ENABLED /\ is_night_time(hour))]_vars
    /\ [](Done /\ last.outcome = "SuppressSilent" => last.night)

\* the flag is off (a night_mode_off has run: it starts on) and a call that
\* was started since has gone past its night-mode test and returned without
\* a network call
C11_Witness ==
    /\ ~NIGHT_MODE_ENABLED
    /\ Done
    /\ ~last.night
    /\ last.outcome = "Allow"
    /\ last.calls = <<>>

----------------------------------------------------------------------------
\* keyword k qualifies for a text: the case-folded text holds k, or the text
\* and k are similar
C12_Qualifies(text, k) == IsSubstring(k, lower(text)) \/ is_similar(text, k)

\* C12: for every text and keyword list, the matcher returns the keywords
\* that the case-folded text holds or that are similar to the text: every
\* one of them, each as often as the list holds it, none else, in the order
\* of the list, and the empty result (False) when none qualifies; for "Click
\* here for a free gift!" the result holds "click here" and "free gift" when
\* the list does.
C12_MatcherReturnsTheQualifyingKeywords ==
    probe.fn = "contains_spam_keywords" =>
        LET text       == probe.text1
            keywords   == probe.keywords
            result     == probe.matches
            qualifying == {i \in DOMAIN keywords : C12_Qualifies(text, keywords[i])}
        IN  /\ \A i \in DOMAIN keywords :
                  (i \in qualifying) <=> (keywords[i] \in Range(result))
            /\ Len(result) = Cardinality(qualifying)
            /\ \A a \in DOMAIN result : \A b \in DOMAIN result :
                  a < b => \E i \in qualifying : \E j \in qualifying :
                              i < j /\ keywords[i] = result[a] /\ keywords[j] = result[b]
            /\ (qualifying = {}) <=> (result = <<>>)
            /\ (text = FreeGiftText /\ {CLICK_HERE, FREE_GIFT} \subseteq Range(keywords))
                  => {CLICK_HERE, FREE_GIFT} \subseteq Range(result)

\* the example of the claim, on a list that holds "free gift" before "click
\* here": both are returned, in that order
C12_Witness ==
    /\ probe.fn = "contains_spam_keywords"
    /\ probe.text1 = FreeGiftText
    /\ probe.keywords = <<FREE_GIFT, CLICK_HERE>>
    /\ probe.matches = <<FREE_GIFT, CLICK_HERE>>

----------------------------------------------------------------------------
\* C13: is_night_time is true at the local hours 23, 0, 1, 2, 3, 4, 5 and 6
\* and at no other hour of the day.
C13_QuietHoursAre23To7 ==
    probe.fn = "is_night_time" =>
        /\ probe.hour \in {23, 0, 1, 2, 3, 4, 5, 6} => probe.night = "True"
        /\ probe.hour \in 7..22 => probe.night = "False"

\* the call at hour 23, where the window opens
C13_Witness ==
    /\ probe.fn = "is_night_time"
    /\ probe.hour = 23
    /\ probe.night = "True"

----------------------------------------------------------------------------
\* C14 as the spec states it: is_similar(a, b) = is_similar(b, a) for all
\* texts a and b.
C14_SimilarIsSymmetric ==
    probe.fn = "is_similar" =>
        probe.similar = Str(is_similar(probe.text2, probe.text1))

----------------------------------------------------------------------------
\* C15 as the spec states it: for every keyword of SPAM_KEYWORDS and every
\* text that holds the keyword as it is written, the matcher returns the
\* keyword.
C15_EveryKeywordMatchesByContainment ==
    (probe.fn = "contains_spam_keywords" /\ probe.keywords = SPAM_KEYWORDS) =>
        \A i \in DOMAIN SPAM_KEYWORDS :
            IsSubstring(SPAM_KEYWORDS[i], probe.text1)
                => SPAM_KEYWORDS[i] \in Range(probe.matches)

----------------------------------------------------------------------------
RECURSIVE Pow(_, _)
Pow(b, n) == IF n = 0 THEN 1 ELSE b * Pow(b, n - 1)

\* the wrapper has returned or raised
C16_Ended == retry.pc \in {"returned", "raised"}

\* C16: a call of the wrapper built with max_retries >= 1 ends, after at
\* most max_retries calls of func: every call of func but the last ended
\* with a network error; the wrapper returns the value of the first call
\* that returns, raises an exception that is no network error at once, and
\* after max_retries network errors raises the last of them; it has slept
\* once after every failed attempt but the max_retries-th (so never after
\* the last), the k-th time for initial_delay * backoff_factor^(k-1)
\* seconds: 5, 10, 20, ... with the defaults.
C16_RetryIsBoundedAndBacksOff ==
    /\ [](retry.pc \notin {"none", "start"} /\ retry.max_retries >= 1 =>
             LET n == Len(retry.outcomes)
             IN  /\ n <= retry.max_retries
                 /\ \A i \in 1..(n - 1) : retry.outcomes[i] \in NetworkErrors
                 /\ retry.pc = "func" =>
                       /\ \A i \in 1..n : retry.outcomes[i] \in NetworkErrors
                       /\ Len(retry.slept) = n
                 /\ retry.pc = "sleep" =>
                       /\ retry.outcomes[n] \in NetworkErrors
                       /\ n < retry.max_retries
                       /\ Len(retry.slept) = n - 1
                 /\ retry.pc = "returned" =>
                       /\ retry.outcomes[n] = "ok"
                       /\ retry.returned = "value"
                       /\ Len(retry.slept) = n - 1
                 /\ retry.pc = "raised" =>
                       /\ retry.raised = retry.outcomes[n]
                       /\ retry.raised \in NetworkErrors => n = retry.max_retries
                       /\ retry.raised \in NetworkErrors \cup OtherErrors
                       /\ Len(retry.slept) = n - 1
                 /\ \A k \in DOMAIN retry.slept :
                       retry.slept[k] =
                           retry.initial_delay * Pow(retry.backoff_factor, k - 1)
                 /\ (/\ retry.initial_delay = DEFAULT_INITIAL_DELAY
                     /\ retry.backoff_factor = DEFAULT_BACKOFF_FACTOR
                     /\ Len(retry.slept) >= 3)
                       => SubSeq(retry.slept, 1, 3) = <<5, 10, 20>>)
    /\ <>C16_Ended

\* with the defaults: ten network errors, nine sleeps, the last error raised
C16_Witness ==
    /\ retry.pc = "raised"
    /\ retry.max_retries = DEFAULT_MAX_RETRIES
    /\ retry.initial_delay = DEFAULT_INITIAL_DELAY
    /\ retry.backoff_factor = DEFAULT_BACKOFF_FACTOR
    /\ Len(retry.outcomes) = 10
    /\ retry.outcomes[9] = "httpx.NetworkError"
    /\ retry.raised = "telegram.error.NetworkError"
    /\ retry.slept = <<5, 10, 20, 40, 80, 160, 320, 640, 1280>>

----------------------------------------------------------------------------
\* the last clock reading of the runs
C17_Horizon == SetMax(TimedInstants)

\* no task is pending whose sleep ends within the clock readings of the runs
C17_AllRun == \A i \in DOMAIN wake : wake[i] > C17_Horizon

\* C17: the step in which send_message returns creates one task, whose
\* sleep ends 14 * 60 seconds later, and ends the call of handle_message
\* (the handler does not wait for the task); a failed send creates none; a
\* task leaves the pending ones only by its one attempt to delete, made no
\* earlier than the end of its sleep, and that step, whether the delete
\* succeeds or fails, changes no window, flag, coroutine or clock; and every
\* task is eventually run: from some time on no task is pending whose sleep
\* ends within the clock readings of the runs.
C17_WarningIsDeletedOnceAfterDelay ==
    /\ [](warning_tasks = Len(wake))
    /\ [][\A h \in Handlers :
             (Steps(h) /\ handlers[h].pc = "send") =>
                 /\ After(h).pc = "done"
                 /\ wake' = IF After(h).calls[Len(After(h).calls)] = <<"send", TRUE>>
                            THEN Append(wake, now + 14 * 60)
                            ELSE wake]_vars
    /\ [][wake' # wake =>
             \/ \E h \in Handlers :
                   /\ Steps(h)
                   /\ handlers[h].pc = "send"
                   /\ wake' = Append(wake, now + 14 * 60)
             \/ \E i \in DOMAIN wake :
                   /\ wake' = Remove(wake, i)
                   /\ now >= wake[i]
                   /\ warning_tasks' = warning_tasks - 1
                   /\ UNCHANGED <<user_messages, NIGHT_MODE_ENABLED, now, handlers,
                                  last>>]_vars
    /\ <>[]C17_AllRun

\* the call that returned last sent its warning, time has passed, and no
\* task is pending any more: the task has run
C17_Witness ==
    /\ Done
    /\ last.calls # <<>>
    /\ last.calls[Len(last.calls)] = <<"send", TRUE>>
    /\ wake = <<>>
    /\ warning_tasks = 0
    /\ now = 14 * 60 + 1

----------------------------------------------------------------------------
\* the calls rec made on the suppress-and-penalize path (lines 123-138): its
\* calls without the delete of night mode (line 108), which comes first when
\* the test of line 106 was true
C18_PathCalls(rec) ==
    IF rec.night /\ rec.calls # <<>> THEN Tail(rec.calls) ELSE rec.calls

\* the orders in which the calls of the path can be made
C18_Orders ==
    { <<"delete", "send">>, <<"delete", "restrict", "send">>,
      <<"delete", "ban", "send">> }

\* the calls c are the first calls of one of the orders, and each but the
\* last one succeeded
C18_InOrder(c) ==
    /\ \E o \in C18_Orders :
          /\ Len(c) <= Len(o)
          /\ \A i \in DOMAIN c : c[i][1] = o[i]
    /\ \A i \in DOMAIN c : i < Len(c) => c[i][2]

\* C18: on the path of lines 121-145 the calls are made in the order delete,
\* then restrict or ban (if the action selects one), then send, and then the
\* task that deletes the warning is created; each is made only after every
\* earlier one succeeded: a coroutine waits for the penalty call or the
\* warning only after the delete of line 123 succeeded, no penalty call and
\* no warning follows a failed delete or a failed penalty call, and a task
\* is created only in the step in which send_message returns without error,
\* after which the call makes no other call.
C18_FixedOrderEachAfterSuccess ==
    /\ [](\A rec \in {handlers[h] : h \in Handlers} \cup {last} :
            LET c == C18_PathCalls(rec)
            IN  /\ C18_InOrder(c)
                /\ rec.pc \in {"restrict", "ban", "send"} =>
                      /\ c # <<>>
                      /\ c[1] = <<"delete", TRUE>>
                      /\ \A i \in DOMAIN c : c[i][2]
                /\ rec.pc = "delete" => c = <<>>
                /\ (c # <<>> /\ c[1] = <<"delete", FALSE>>) =>
                      (c = << <<"delete", FALSE>> >> /\ rec.pc = "done"))
    /\ [][Len(wake') > Len(wake) =>
             \E h \in Handlers :
                 /\ handlers[h].pc = "send"
                 /\ Steps(h)
                 /\ After(h).pc = "done"
                 /\ LET c == C18_PathCalls(After(h))
                    IN  /\ c[Len(c)] = <<"send", TRUE>>
                        /\ \A i \in DOMAIN c : c[i][2]
                 /\ Len(wake') = Len(wake) + 1]_vars

\* a call deleted the message, muted the sender and sent the warning, and
\* the task that will delete the warning is pending
C18_Witness ==
    /\ Done
    /\ last.calls = << <<"delete", TRUE>>, <<"restrict", TRUE>>, <<"send", TRUE>> >>
    /\ Len(wake) = 1

----------------------------------------------------------------------------
\* C19: a call of handle_message appends at most one record to its sender's
\* window, whatever its network calls raise, and the wrapper of line 104
\* never runs handle_message a second time for an update: every error of a
\* network call is caught inside handle_message (lines 110, 144), so a
\* coroutine at the start of handle_message has made no network call and
\* appended no record, and one in the frequency check has appended none yet.
C19_OneRecordPerMessage ==
    \A rec \in {handlers[h] : h \in Handlers} \cup {last} :
        /\ rec.appended <= 1
        /\ rec.pc = "start" => (rec.calls = <<>> /\ rec.appended = 0)
        /\ rec.pc \in {"body", "hf_purge", "hf_count", "hf_append"} =>
              /\ rec.appended = 0
              /\ rec.calls \in { <<>>, << <<"delete", FALSE>> >> }
        /\ rec.appended = 1 => rec.hf # "none"

\* a call ran the frequency check, which flagged the message, deleted the
\* message and then failed to send the warning: it has appended one record
C19_Witness ==
    /\ Done
    /\ last.hf = "True"
    /\ last.appended = 1
    /\ last.calls = << <<"delete", TRUE>>, <<"send", FALSE>> >>

----------------------------------------------------------------------------
\* the list user_messages holds for sender u (the empty list when it holds
\* none)
C20_Own(um, u) == IF u \in DOMAIN um THEN um[u] ELSE <<>>

\* the value is_high_frequency returns for a text at time t on a window w
C20_Result(w, t, text) ==
    Cardinality({i \in DOMAIN w : t - w[i][1] <= TIME_WINDOW
                                    /\ is_similar(w[i][2], text)}) >= MESSAGE_LIMIT

\* C20: a step of a call for a message of sender A leaves the list of every
\* other sender as it is and adds no key but A's; the window the frequency
\* check works on is A's own list and its time is the clock reading at the
\* purge, and the value it returns is the one that this window, the text
\* and this time determine; so a message is flagged only when its sender's
\* own list holds MESSAGE_LIMIT earlier records, however many records the
\* other senders have.
C20_SenderIsolation ==
    /\ [][\A h \in Handlers :
             Steps(h) =>
                 LET A == IF handlers[h].pc = "idle" THEN handlers'[h].user_id
                          ELSE handlers[h].user_id
                 IN  /\ DOMAIN user_messages' \subseteq DOMAIN user_messages \cup {A}
                     /\ \A B \in DOMAIN user_messages \ {A} :
                           /\ B \in DOMAIN user_messages'
                           /\ user_messages'[B] = user_messages[B]]_vars
    /\ [][\A h \in Handlers :
             (Steps(h) /\ handlers[h].pc = "hf_purge") =>
                 /\ handlers'[h].seen = C20_Own(user_messages, handlers[h].user_id)
                 /\ handlers'[h].t = now]_vars
    /\ [][\A h \in Handlers :
             (Steps(h) /\ handlers[h].pc = "hf_append") =>
                 After(h).hf = Str(C20_Result(handlers[h].seen, handlers[h].t,
                                              handlers[h].text))]_vars
    /\ [](Done /\ last.hf = "True" =>
            Len(C20_Own(user_messages, last.user_id)) >= MESSAGE_LIMIT + 1)

\* sender 2 has MESSAGE_LIMIT records with the text that sender 1 then
\* sends, all within TIME_WINDOW, and the message of sender 1 is not flagged
C20_Witness ==
    /\ Done
    /\ last.user_id = 1
    /\ last.hf = "False"
    /\ Len(C20_Own(user_messages, 1)) = 1
    /\ Len(C20_Own(user_messages, 2)) = MESSAGE_LIMIT
    /\ \A i \in DOMAIN user_messages[2] :
          /\ user_messages[2][i][2] = last.text
          /\ user_messages[1][1][1] - user_messages[2][i][1] <= TIME_WINDOW

====
